---- MODULE Spec2Model ----
(***************************************************************************)
(* Lifecycle engine of github.com/FlowSeer/service: run.go (runAll, run,   *)
(* runBlocking) and handle.go (Handle.Wait, Handle.Shutdown, setStopped,   *)
(* createHandle, createErrorHandle).                                       *)
(*                                                                         *)
(* Threads are the lifecycle goroutines (one per service, started by       *)
(* eg.Go in run) and a pool of external callers that hold the handles      *)
(* returned by runAll and call Handle.Wait / Handle.Shutdown on them.      *)
(* The lifecycle goroutine of service s has the thread id s; it executes   *)
(* the same Handle.Shutdown code as the external callers.                  *)
(*                                                                         *)
(* Service callbacks (Initialize, Run, Shutdown) are caller-supplied code: *)
(* each invocation is one step, each return a later step whose result is   *)
(* chosen nondeterministically (nil or an error).  A Run callback is      *)
(* either of the kind that returns when its work is done or of the kind    *)
(* that blocks until its execution context is cancelled.                   *)
(*                                                                         *)
(* Two programs are specified.  Spec is Run / RunGroup on one service,     *)
(* whose handle is then used by external callers through Wait and          *)
(* Shutdown in any order.  GroupSpec is RunParallelAndWait /               *)
(* RunGroupAndWait on up to NumSvcs services: the handles stay inside the   *)
(* call and are only waited on; the ...AndExit variants then exit the      *)
(* process.  SimpleSpec is the service built by Simple (simpleService),    *)
(* whose Run and Shutdown are called directly by NumRunners goroutines.    *)
(***************************************************************************)
EXTENDS Integers, FiniteSets, Sequences, TLC

\* ---- bounds ----
NumSvcs == 2
NumCallers == 2
NumRunners == 3

Svcs == 1..NumSvcs
Callers == (NumSvcs + 1)..(NumSvcs + NumCallers)
\* RunParallelAndWait / RunGroupAndWait: the goroutine collecting errs[i]
WaiterOf(i) == NumSvcs + NumCallers + i
Waiters == {WaiterOf(i) : i \in Svcs}
Threads == Svcs \cup Callers \cup Waiters
\* goroutines calling Run on one simpleService value
Runners == 1..NumRunners
\* goroutines calling methods of one DefaultRunner
NumRCallers == 2
RCallers == 1..NumRCallers
\* handle ids: those DefaultRunner.Run can hand out and Shutdown can be given
NumIds == 2
RIds == 1..NumIds
\* nested shutdownAndRemove frames a goroutine stack holds before the runtime
\* ends the process with "stack overflow"
MaxStack == 3
\* fields of the configuration struct T
NumKeys == 1
Keys == 1..NumKeys
\* config files listed in ConfigOptions.Files
MaxFiles == 2
\* values of FilesPriority and EnvVarsPriority
MaxPriority == 2
Priorities == 1..MaxPriority
\* the zero value of a field of T
Zero == 0
\* the value an environment variable gives a field
EnvVal == -1
\* a nil *T
NilCfg == [nil |-> TRUE, v |-> [k \in Keys |-> Zero]]
\* a file that cannot be read or parsed
Unreadable == [readable |-> FALSE, sets |-> [k \in Keys |-> FALSE]]
\* length of the generated prefixes and names given to EnvName
MaxLen == 2

\* ---- Phase enumeration ----
PhaseWaiting == 0
PhaseInitializing == 1
PhaseRunning == 2
PhaseShuttingDown == 3
PhaseFinished == 4
PhaseFailed == 5

\* ---- error values ----
\* An error value is a pair <<primary cause, associated cause>>; "nil" marks
\* an absent cause and Nil is the nil error.
Nil == <<"nil", "nil">>
ECtx == <<"ECtx", "nil">>
EInit == <<"EInit", "nil">>
ERun == <<"ERun", "nil">>
ESd == <<"ESd", "nil">>
Causes == {"nil", "ECtx", "EInit", "ERun", "ESd"}
ErrorValues == Causes \X Causes
None == <<"none", "none">>
EFn == <<"EFn", "nil">>
ErrServiceAlreadyRunning == <<"ErrServiceAlreadyRunning", "nil">>
ErrServiceAlreadyStopped == <<"ErrServiceAlreadyStopped", "nil">>

\* variant: a non-nil associated error replaces the primary one
WithAssociatedOverwrite(e, a) == IF a = Nil THEN e ELSE a

\* fail.WithAssociated(err, associated): err stays the primary error and the
\* associated error is attached to it; a nil associated error attaches nothing.
WithAssociated(e, a) == <<e[1], IF a = Nil THEN e[2] ELSE a[1]>>

VARIABLES
    nextSvc,      \* runAll: index of the next service handed to run
    hkind,        \* per service: "none" (no handle yet), "live", "error"
    phase,        \* Handle.phase
    err,          \* Handle.err
    shutdownErr,  \* Handle.shutdownErr
    exitClosed,   \* Handle.exitSig is closed
    once,         \* Handle.shutdownOnce: "idle", "busy", "done"
    svcErr,       \* run: svcErr, the value runBlocking returned
    tpc,          \* per thread: position in its code
    th,           \* per thread: the handle its current call is on
    top,          \* per thread: "Wait", "Shutdown" or "-"
    terr,         \* per thread: h.Error() as read inside Wait
    tres,         \* per thread: the value its last call returned
    initCalls,    \* per service: invocations of svc.Initialize
    runCalls,     \* per service: invocations of svc.Run
    sdCalls,      \* per service: invocations of svc.Shutdown
    initRet,      \* per service: what svc.Initialize returned (None before)
    runRet,       \* per service: what svc.Run returned
    sdRet,        \* per service: what svc.Shutdown returned
    waitResults,  \* per service: the values returned by external Wait calls
    sdResults,    \* per service: the values returned by external Shutdown calls
    nSvcs,        \* runAll: len(svcs)
    grouped,      \* runAll: grouped
    baseDone,     \* the caller's base context is cancelled
    groupDone,    \* the errgroup's derived context is cancelled
    ctxParent,    \* per service: what its execution context derives from
    ctxDone,      \* per service: its execution context is cancelled
    runBlocks,    \* per service: the Run in progress blocks until the context is cancelled
    sawCancel,    \* per service: the context was cancelled when Run returned
    closes,       \* per service: executions of close(h.exitSig)
    sdArg,        \* per thread: the context it supplied to Handle.Shutdown
    sdCtx,        \* per service: the context svc.Shutdown was invoked with
    errs,         \* Run...AndWait: errs
    andWaitRet,   \* Run...AndWait: the slice returned (Pending before)
    exitCode,     \* Run...AndExit: the code given to os.Exit (NotExited before)
    started,      \* simpleService.started
    stopped,      \* simpleService.stopped
    shutdownRequested, \* simpleService.shutdownRequested
    simpleErr,    \* simpleService.err
    fnCalls,      \* simpleService: invocations of fn
    rpc,          \* per runner: position in simpleService.Run
    rran,         \* per runner: its current Run call invoked fn
    rres,         \* per runner: what its Run call returned (None before)
    fnRet,        \* simpleService: what fn returned (None before)
    services,     \* DefaultRunner.services: the ids it has a key for
    serviceHandles, \* DefaultRunner.serviceHandles: the ids it has a key for
    stopping,     \* DefaultRunner.stopping
    cpc,          \* per runner caller: position in its call on the DefaultRunner
    cop,          \* per runner caller: the method it called last
    cid,          \* per runner caller: the handle id given to Shutdown
    cdepth,       \* per runner caller: shutdownAndRemove frames on its stack
    cres,         \* per runner caller: what its call returned (None before)
    crashed,      \* the runtime ended the process with a fatal error
    stopNils,     \* DefaultRunner: Stop calls that returned nil
    cfgIn,        \* readConfig: opts, the files' contents and the environment
    cfgPc,        \* readConfig: position
    envCfg,       \* readConfig: envCfg
    fileCfgs,     \* readConfig: fileCfgs
    cfgI,         \* readConfig: index of the current loop
    allCfgs,      \* readConfig: allCfgs
    res,          \* readConfig: res
    cfgRet,       \* readConfig: what it returned (None before)
    envPrefix,    \* EnvName: prefix
    envName,      \* EnvName: name
    envOut        \* EnvName: the string returned (None before)

handleVars == <<hkind, phase, err, shutdownErr, exitClosed, once>>
threadVars == <<tpc, th, top, terr, tres>>
ghostVars == <<initCalls, runCalls, sdCalls, initRet, runRet, sdRet,
               waitResults, sdResults>>
ctxVars == <<nSvcs, grouped, baseDone, groupDone, ctxParent, ctxDone>>
auxVars == <<runBlocks, sawCancel, closes>>
callVars == <<sdArg, sdCtx>>
finishVars == <<errs, andWaitRet, exitCode>>
engineVars == <<nextSvc, handleVars, svcErr, threadVars, ghostVars, ctxVars,
                auxVars, callVars, finishVars>>
simpleVars == <<started, stopped, shutdownRequested, simpleErr, fnCalls,
                rpc, rran, rres, fnRet>>
runnerVars == <<services, serviceHandles, stopping, cpc, cop, cid, cdepth,
                cres, crashed, stopNils>>
configVars == <<cfgIn, cfgPc, envCfg, fileCfgs, cfgI, allCfgs, res, cfgRet>>
envNameVars == <<envPrefix, envName, envOut>>
otherVars == <<runnerVars, configVars, envNameVars>>
vars == <<engineVars, simpleVars, otherVars>>

\* andWaitRet while Run...AndWait has not returned
Pending == <<None>>
\* exitCode while os.Exit has not been called
NotExited == -1

InitHandles ==
    /\ nextSvc = 1
    /\ hkind = [s \in Svcs |-> "none"]
    /\ phase = [s \in Svcs |-> PhaseWaiting]
    /\ err = [s \in Svcs |-> Nil]
    /\ shutdownErr = [s \in Svcs |-> Nil]
    /\ exitClosed = [s \in Svcs |-> FALSE]
    /\ once = [s \in Svcs |-> "idle"]
    /\ svcErr = [s \in Svcs |-> Nil]
    /\ tpc = [t \in Threads |-> IF t \in Svcs THEN "unborn" ELSE "idle"]
    /\ th = [t \in Threads |-> IF t \in Svcs THEN t ELSE 0]
    /\ top = [t \in Threads |-> "-"]
    /\ terr = [t \in Threads |-> Nil]
    /\ tres = [t \in Threads |-> None]
    /\ initCalls = [s \in Svcs |-> 0]
    /\ runCalls = [s \in Svcs |-> 0]
    /\ sdCalls = [s \in Svcs |-> 0]
    /\ initRet = [s \in Svcs |-> None]
    /\ runRet = [s \in Svcs |-> None]
    /\ sdRet = [s \in Svcs |-> None]
    /\ waitResults = [s \in Svcs |-> {}]
    /\ sdResults = [s \in Svcs |-> {}]
    /\ grouped \in BOOLEAN
    /\ baseDone = FALSE
    /\ groupDone = FALSE
    /\ ctxParent = [s \in Svcs |-> "none"]
    /\ ctxDone = [s \in Svcs |-> FALSE]
    /\ runBlocks = [s \in Svcs |-> FALSE]
    /\ sawCancel = [s \in Svcs |-> FALSE]
    /\ closes = [s \in Svcs |-> 0]
    /\ sdArg = [t \in Threads |-> "-"]
    /\ sdCtx = [s \in Svcs |-> "none"]
    /\ errs = [s \in Svcs |-> Nil]
    /\ andWaitRet = Pending
    /\ exitCode = NotExited

\* Simple(name, namespace, version, fn): the zero simpleService
InitSimple ==
    /\ started = FALSE
    /\ stopped = FALSE
    /\ shutdownRequested = FALSE
    /\ simpleErr = Nil
    /\ fnCalls = 0
    /\ rpc = [r \in Runners |-> "idle"]
    /\ rran = [r \in Runners |-> FALSE]
    /\ rres = [r \in Runners |-> None]
    /\ fnRet = None

\* NewRunner(ctx, opts...): empty maps, stopping false, nobody calling
InitRunner ==
    /\ services = {}
    /\ serviceHandles = {}
    /\ stopping = FALSE
    /\ cpc = [c \in RCallers |-> "idle"]
    /\ cop = [c \in RCallers |-> "none"]
    /\ cid = [c \in RCallers |-> 0]
    /\ cdepth = [c \in RCallers |-> 0]
    /\ cres = [c \in RCallers |-> None]
    /\ crashed = FALSE
    /\ stopNils = 0

\* no readConfig call
InitConfig ==
    /\ cfgIn = <<>>
    /\ cfgPc = "idle"
    /\ envCfg = NilCfg
    /\ fileCfgs = <<>>
    /\ cfgI = 0
    /\ allCfgs = <<>>
    /\ res = <<>>
    /\ cfgRet = None

\* no EnvName call
InitEnvName ==
    /\ envPrefix = <<>>
    /\ envName = <<>>
    /\ envOut = None

\* the parts of the package no call has been made on
InitOther == InitRunner /\ InitConfig /\ InitEnvName

\* Run(ctx, svc) / RunGroup(ctx, svc): runAll on a single service
Init == InitHandles /\ InitSimple /\ InitOther /\ nSvcs = 1

\* RunParallelAndWait / RunGroupAndWait on 0..NumSvcs services; with fewer
\* than two services they do not call RunParallel / RunGroup themselves but
\* return nil or go through RunAndWait, that is runAll(ctx, false, svcs)
GroupInit ==
    /\ InitHandles
    /\ InitSimple
    /\ InitOther
    /\ nSvcs \in 0..NumSvcs
    /\ nSvcs < 2 => ~grouped

\* a simpleService on its own, no engine run in progress
SimpleInit ==
    /\ InitHandles
    /\ InitSimple
    /\ InitOther
    /\ nSvcs = 0
    /\ ~grouped

\* ---- handle.go helpers ----

\* variant: the Running transition writes the wrong constant
setPhaseBack(h, p) ==
    [phase EXCEPT ![h] = IF p = PhaseRunning THEN PhaseWaiting ELSE p]

\* setPhase
setPhase(h, p) == [phase EXCEPT ![h] = p]

\* setError
setError(h, e) == [err EXCEPT ![h] = e]

\* setShutdownErr, called only for a non-nil callback error
setShutdownErr(h, e) == IF e # Nil THEN [shutdownErr EXCEPT ![h] = e] ELSE shutdownErr

\* variant: the gate tests "not yet completed" instead of "not yet started"
OnceFirstRacy(h) == once[h] # "done"

\* sync.Once.Do: the first caller runs the function
OnceFirst(h) == once[h] = "idle"

\* variant: Do returns at once while the function is still running
OnceNeverBlocks(h) == FALSE

\* sync.Once.Do: a caller arriving while the function runs blocks until it is done
OnceBlocked(h) == once[h] = "busy"

\* variant: Wait polls the channel without blocking
ExitSigNoBlock(h) == TRUE

\* <-h.exitSig: receive on the exit channel succeeds only once it is closed
ExitSigReceive(h) == exitClosed[h]

\* ---- contexts: context.WithCancel / WithValue trees ----

\* variant: runAll keeps the zero errgroup.Group under both policies
EgNeverWithContext(g) == FALSE

\* variant: runAll derives a group context under both policies
EgAlwaysWithContext(g) == TRUE

\* runAll: the errgroup gets a derived, cancellable context only when grouped
EgHasContext(g) == g

\* the context runAll hands to run: the group's context or the caller's
RunAllCtx(g) == IF EgHasContext(g) THEN "group" ELSE "base"

\* variant: createContext starts from a fresh background context
CreateContextDetached(parent) == "background"

\* createContext: the execution context wraps the context it was given
CreateContextParent(parent) == parent

\* a context is cancelled when created from a cancelled parent
DoneOf(c) ==
    CASE c = "base" -> baseDone
      [] c = "group" -> groupDone
      [] OTHER -> FALSE

\* cancelling context c reaches every execution context derived from it;
\* the group context itself derives from the base context
Reaches(c, parent) ==
    \/ parent = c
    \/ c = "base" /\ parent = "group"

\* ctxDone after context c was cancelled
CancelCtx(c) ==
    [s \in Svcs |-> ctxDone[s] \/ Reaches(c, ctxParent[s])]

\* the caller cancels the base context
CancelBase ==
    /\ ~baseDone
    /\ exitCode = NotExited
    /\ baseDone' = TRUE
    /\ groupDone' = (groupDone \/ EgHasContext(grouped))
    /\ ctxDone' = CancelCtx("base")
    /\ UNCHANGED <<nextSvc, handleVars, svcErr, threadVars, ghostVars,
                   nSvcs, grouped, ctxParent, auxVars,
                   callVars, finishVars, simpleVars, otherVars>>

\* ---- run.go: runAll / run ----

\* variant: the error handle's once gate is left unfired
ErrorHandleOnceIdle == "idle"

\* createErrorHandle: h.shutdownOnce.Do(func() {}) fires the gate with a no-op
ErrorHandleOnce == "done"

\* variant: the handle is created already marked as initializing
HandleZeroPhaseInitializing == PhaseInitializing

\* the Phase a Handle literal starts with: the field is left at its zero value
HandleZeroPhase == PhaseWaiting

\* variant: run hands the construction error to the errgroup through eg.Go
CtxErrorReachesGroupViaGo(g) == EgHasContext(g)

\* run: on a createContext error the handle is returned before eg.Go, so the
\* errgroup never gets the error
CtxErrorReachesGroup(g) == FALSE

\* run: createContext failed, createErrorHandle builds an already-closed handle
RunCtxFail(s) ==
    /\ nextSvc = s
    /\ s <= nSvcs
    /\ nextSvc' = s + 1
    /\ hkind' = [hkind EXCEPT ![s] = "error"]
    /\ phase' = setPhase(s, HandleZeroPhase)
    /\ err' = [err EXCEPT ![s] = ECtx]
    /\ once' = [once EXCEPT ![s] = ErrorHandleOnce]
    /\ exitClosed' = [exitClosed EXCEPT ![s] = TRUE]
    /\ closes' = [closes EXCEPT ![s] = @ + 1]
    /\ IF CtxErrorReachesGroup(grouped)
       THEN /\ groupDone' = TRUE
            /\ ctxDone' = CancelCtx("group")
       ELSE UNCHANGED <<groupDone, ctxDone>>
    /\ UNCHANGED <<shutdownErr, svcErr, threadVars, ghostVars,
                   nSvcs, grouped, baseDone, ctxParent, runBlocks, sawCancel,
                   callVars, finishVars, simpleVars, otherVars>>

\* variant: the group was given SetLimit(1), Go waits for a free slot
EgGoBlockedLimitOne(s) == \E p \in Svcs : tpc[p] \notin {"unborn", "done"}

\* eg.Go: no limit is set on the group, so Go starts the goroutine and
\* returns without waiting for any running one
EgGoBlocked(s) == FALSE

\* run: createContext succeeded, createHandle, eg.Go starts the lifecycle goroutine
RunSpawn(s) ==
    /\ nextSvc = s
    /\ s <= nSvcs
    /\ ~EgGoBlocked(s)
    /\ nextSvc' = s + 1
    /\ hkind' = [hkind EXCEPT ![s] = "live"]
    /\ phase' = setPhase(s, HandleZeroPhase)
    /\ tpc' = [tpc EXCEPT ![s] = "spawned"]
    /\ LET parent == CreateContextParent(RunAllCtx(grouped))
       IN /\ ctxParent' = [ctxParent EXCEPT ![s] = parent]
          /\ ctxDone' = [ctxDone EXCEPT ![s] = DoneOf(parent)]
    /\ UNCHANGED <<err, shutdownErr, exitClosed, once, svcErr,
                   th, top, terr, tres, ghostVars,
                   nSvcs, grouped, baseDone, groupDone, auxVars,
                   callVars, finishVars, simpleVars, otherVars>>

\* ---- run.go: runBlocking ----

\* setPhase(PhaseInitializing); svc.Initialize(ctx) is invoked
InitializeCall(s) ==
    /\ tpc[s] = "spawned"
    /\ phase' = setPhase(s, PhaseInitializing)
    /\ initCalls' = [initCalls EXCEPT ![s] = @ + 1]
    /\ tpc' = [tpc EXCEPT ![s] = "init"]
    /\ UNCHANGED <<nextSvc, hkind, err, shutdownErr, exitClosed, once, svcErr,
                   th, top, terr, tres, runCalls, sdCalls, initRet, runRet,
                   sdRet, waitResults, sdResults,
                   ctxVars, auxVars,
                   callVars, finishVars, simpleVars, otherVars>>

\* variant: runBlocking carries on after an Initialize error
AfterInitializeNoAbort(r) == "init_ok"

\* position of runBlocking after Initialize returned r
AfterInitialize(r) == IF r # Nil THEN "stop" ELSE "init_ok"

\* svc.Initialize returns r; on error runBlocking returns it
InitializeReturn(s, r) ==
    /\ tpc[s] = "init"
    /\ initRet' = [initRet EXCEPT ![s] = r]
    /\ tpc' = [tpc EXCEPT ![s] = AfterInitialize(r)]
    /\ svcErr' = [svcErr EXCEPT ![s] = r]
    /\ UNCHANGED <<nextSvc, handleVars, th, top, terr, tres, initCalls,
                   runCalls, sdCalls, runRet, sdRet, waitResults, sdResults,
                   ctxVars, auxVars,
                   callVars, finishVars, simpleVars, otherVars>>

\* setPhase(PhaseRunning); svc.Run(ctx) is invoked
RunCall(s) ==
    /\ tpc[s] = "init_ok"
    /\ phase' = setPhase(s, PhaseRunning)
    /\ runCalls' = [runCalls EXCEPT ![s] = @ + 1]
    /\ tpc' = [tpc EXCEPT ![s] = "run"]
    /\ \E b \in BOOLEAN : runBlocks' = [runBlocks EXCEPT ![s] = b]
    /\ UNCHANGED <<nextSvc, hkind, err, shutdownErr, exitClosed, once, svcErr,
                   th, top, terr, tres, initCalls, sdCalls, initRet, runRet,
                   sdRet, waitResults, sdResults,
                   ctxVars, sawCancel, closes,
                   callVars, finishVars, simpleVars, otherVars>>

\* variant: a failed Run is retried
AfterRunRetry(r) == IF r # Nil THEN "init_ok" ELSE "run_ok"

\* position of runBlocking after Run returned r
AfterRun(r) == IF r # Nil THEN "stop" ELSE "run_ok"

\* svc.Run returns r; on error runBlocking returns it
RunReturn(s, r) ==
    /\ tpc[s] = "run"
    /\ runBlocks[s] => ctxDone[s]
    /\ runRet' = [runRet EXCEPT ![s] = r]
    /\ tpc' = [tpc EXCEPT ![s] = AfterRun(r)]
    /\ svcErr' = [svcErr EXCEPT ![s] = r]
    /\ sawCancel' = [sawCancel EXCEPT ![s] = ctxDone[s]]
    /\ runBlocks' = [runBlocks EXCEPT ![s] = FALSE]
    /\ UNCHANGED <<nextSvc, handleVars, th, top, terr, tres, initCalls,
                   runCalls, sdCalls, initRet, sdRet, waitResults, sdResults,
                   ctxVars, closes,
                   callVars, finishVars, simpleVars, otherVars>>

\* setPhase(PhaseShuttingDown); handle.Shutdown(ctx) is entered
ShutdownStep(s) ==
    /\ tpc[s] = "run_ok"
    /\ phase' = setPhase(s, PhaseShuttingDown)
    /\ tpc' = [tpc EXCEPT ![s] = "sd_once"]
    /\ top' = [top EXCEPT ![s] = "Shutdown"]
    /\ sdArg' = [sdArg EXCEPT ![s] = "exec"]
    /\ UNCHANGED <<nextSvc, hkind, err, shutdownErr, exitClosed, once, svcErr,
                   th, terr, tres, ghostVars,
                   ctxVars, auxVars,
                   sdCtx, finishVars, simpleVars, otherVars>>

\* ---- handle.go: Handle.Shutdown / Handle.Wait, run by any thread ----

\* createHandle: shutdownFunc is func(ctx) { return svc.Shutdown(svcContext) };
\* whatever context it is called with, the callback gets the service's
\* execution context
ShutdownFuncCtx(supplied) == "exec"

\* shutdownOnce.Do, first caller: h.shutdownFunc(ctx) invokes svc.Shutdown
OnceDoFirst(t) ==
    /\ tpc[t] = "sd_once"
    /\ OnceFirst(th[t])
    /\ once' = [once EXCEPT ![th[t]] = "busy"]
    /\ sdCalls' = [sdCalls EXCEPT ![th[t]] = @ + 1]
    /\ sdCtx' = [sdCtx EXCEPT ![th[t]] = ShutdownFuncCtx(sdArg[t])]
    /\ sdArg' = [sdArg EXCEPT ![t] = "-"]
    /\ tpc' = [tpc EXCEPT ![t] = "sd_cb"]
    /\ UNCHANGED <<nextSvc, hkind, phase, err, shutdownErr, exitClosed, svcErr,
                   th, top, terr, tres, initCalls, runCalls, initRet, runRet,
                   sdRet, waitResults, sdResults,
                   ctxVars, auxVars,
                   finishVars, simpleVars, otherVars>>

\* shutdownOnce.Do, later caller: returns once the first call has completed
OnceDoSkip(t) ==
    /\ tpc[t] = "sd_once"
    /\ ~OnceFirst(th[t])
    /\ ~OnceBlocked(th[t])
    /\ tpc' = [tpc EXCEPT ![t] = "wait"]
    /\ sdArg' = [sdArg EXCEPT ![t] = "-"]
    /\ UNCHANGED <<nextSvc, handleVars, svcErr, th, top, terr, tres, ghostVars,
                   ctxVars, auxVars,
                   sdCtx, finishVars, simpleVars, otherVars>>

\* svc.Shutdown returns r; a non-nil r is stored; Do completes
ShutdownFuncReturn(t, r) ==
    /\ tpc[t] = "sd_cb"
    /\ sdRet' = [sdRet EXCEPT ![th[t]] = r]
    /\ shutdownErr' = setShutdownErr(th[t], r)
    /\ once' = [once EXCEPT ![th[t]] = "done"]
    /\ tpc' = [tpc EXCEPT ![t] = "wait"]
    /\ UNCHANGED <<nextSvc, hkind, phase, err, exitClosed, svcErr,
                   th, top, terr, tres, initCalls, runCalls, sdCalls, initRet,
                   runRet, waitResults, sdResults,
                   ctxVars, auxVars,
                   callVars, finishVars, simpleVars, otherVars>>

\* Wait: <-h.exitSig, then h.Error() is read
WaitReceive(t) ==
    /\ tpc[t] = "wait"
    /\ ExitSigReceive(th[t])
    /\ terr' = [terr EXCEPT ![t] = err[th[t]]]
    /\ tpc' = [tpc EXCEPT ![t] = "wait2"]
    /\ UNCHANGED <<nextSvc, handleVars, svcErr, th, top, tres, ghostVars,
                   ctxVars, auxVars,
                   callVars, finishVars, simpleVars, otherVars>>

\* the phase runBlocking sets from the value handle.Shutdown returned
PhaseAfterShutdown(r) == IF r # Nil THEN PhaseFailed ELSE PhaseFinished

\* variant: every caller of Handle.Shutdown / Wait goes on as runBlocking does
InRunBlockingOrOutside(t) == TRUE

\* the call in progress is the handle.Shutdown(ctx) made by runBlocking: the
\* thread is a lifecycle goroutine
InRunBlocking(t) == t \in Svcs

\* variant: the closures share one loop variable, left at the last index
ErrsIndexShared(i) == nSvcs

\* Run...AndWait: the i in errs[i] = h.Wait() is the loop variable of the
\* iteration that started the goroutine (per-iteration loop variables)
ErrsIndex(i) == i

\* Wait: h.getShutdownErr() is read and the combined error returned.
\* To an external caller the call returns.  In the lifecycle goroutine the
\* call is runBlocking's handle.Shutdown(ctx): runBlocking sets the terminal
\* phase from the result and returns it (its own err is nil at this point).
WaitReturn(t) ==
    /\ tpc[t] = "wait2"
    /\ LET h == th[t]
           r == WithAssociated(terr[t], shutdownErr[h])
       IN IF InRunBlocking(t)
          THEN /\ phase' = setPhase(h, PhaseAfterShutdown(r))
               /\ svcErr' = [svcErr EXCEPT ![h] = r]
               /\ tpc' = [tpc EXCEPT ![t] = "stop"]
               /\ top' = [top EXCEPT ![t] = "-"]
               /\ UNCHANGED <<tres, waitResults, sdResults, errs>>
          ELSE /\ tres' = [tres EXCEPT ![t] = r]
               /\ errs' = IF t \in Waiters
                          THEN [errs EXCEPT ![ErrsIndex(h)] = r]
                          ELSE errs
               /\ tpc' = [tpc EXCEPT ![t] = "ret"]
               /\ waitResults' = IF top[t] = "Wait" /\ t \in Callers
                                 THEN [waitResults EXCEPT ![h] = @ \cup {r}]
                                 ELSE waitResults
               /\ sdResults' = IF top[t] = "Shutdown"
                               THEN [sdResults EXCEPT ![h] = @ \cup {r}]
                               ELSE sdResults
               /\ UNCHANGED <<phase, svcErr, top>>
    /\ UNCHANGED <<nextSvc, hkind, err, shutdownErr, exitClosed, once, th, terr,
                   initCalls, runCalls, sdCalls, initRet, runRet, sdRet,
                   ctxVars, auxVars,
                   callVars, andWaitRet, exitCode, simpleVars, otherVars>>

\* ---- run.go: run, after runBlocking returned; handle.go: setStopped ----

\* setStopped: h.setError(err)
SetStoppedError(s) ==
    /\ tpc[s] = "stop"
    /\ err' = setError(s, svcErr[s])
    /\ tpc' = [tpc EXCEPT ![s] = "close"]
    /\ UNCHANGED <<nextSvc, hkind, phase, shutdownErr, exitClosed, once, svcErr,
                   th, top, terr, tres, ghostVars,
                   ctxVars, auxVars,
                   callVars, finishVars, simpleVars, otherVars>>

\* variant: setStopped is reached a second time (deferred and explicit)
AfterCloseAgain == "close"

\* position of the goroutine function after setStopped: return svcErr
AfterClose == "egret"

\* setStopped: close(h.exitSig)
SetStoppedClose(s) ==
    /\ tpc[s] = "close"
    /\ exitClosed' = [exitClosed EXCEPT ![s] = TRUE]
    /\ closes' = [closes EXCEPT ![s] = @ + 1]
    /\ tpc' = [tpc EXCEPT ![s] = AfterClose]
    /\ UNCHANGED <<nextSvc, hkind, phase, err, shutdownErr, once, svcErr,
                   th, top, terr, tres, ghostVars,
                   ctxVars, runBlocks, sawCancel,
                   callVars, finishVars, simpleVars, otherVars>>

\* eg.Go: the goroutine function returns svcErr to the errgroup, which on a
\* non-nil error cancels its context if it has one; the goroutine ends
EgReturn(s) ==
    /\ tpc[s] = "egret"
    /\ tpc' = [tpc EXCEPT ![s] = "done"]
    /\ IF svcErr[s] # Nil /\ EgHasContext(grouped)
       THEN /\ groupDone' = TRUE
            /\ ctxDone' = CancelCtx("group")
       ELSE UNCHANGED <<groupDone, ctxDone>>
    /\ UNCHANGED <<nextSvc, handleVars, svcErr, th, top, terr, tres, ghostVars,
                   nSvcs, grouped, baseDone, ctxParent, auxVars,
                   callVars, finishVars, simpleVars, otherVars>>

\* ---- external callers, holding the handles runAll returned ----

RunAllReturned == nextSvc > nSvcs

\* an external caller enters h.Wait()
CallWait(c, h) ==
    /\ RunAllReturned
    /\ h <= nSvcs
    /\ tpc[c] = "idle"
    /\ tpc' = [tpc EXCEPT ![c] = "wait"]
    /\ th' = [th EXCEPT ![c] = h]
    /\ top' = [top EXCEPT ![c] = "Wait"]
    /\ UNCHANGED <<nextSvc, handleVars, svcErr, terr, tres, ghostVars,
                   ctxVars, auxVars,
                   callVars, finishVars, simpleVars, otherVars>>

\* the contexts an external caller may supply to Handle.Shutdown: one of its
\* own, live or already cancelled
CallerCtxs == {"callerLive", "callerCancelled"}

\* an external caller enters h.Shutdown(ctx)
CallShutdown(c, h) ==
    /\ RunAllReturned
    /\ h <= nSvcs
    /\ tpc[c] = "idle"
    /\ tpc' = [tpc EXCEPT ![c] = "sd_once"]
    /\ th' = [th EXCEPT ![c] = h]
    /\ top' = [top EXCEPT ![c] = "Shutdown"]
    /\ \E x \in CallerCtxs : sdArg' = [sdArg EXCEPT ![c] = x]
    /\ UNCHANGED <<nextSvc, handleVars, svcErr, terr, tres, ghostVars,
                   ctxVars, auxVars,
                   sdCtx, finishVars, simpleVars, otherVars>>

\* an external caller is done with the returned value and may call again
CallerDone(c) ==
    /\ tpc[c] = "ret"
    /\ tpc' = [tpc EXCEPT ![c] = "idle"]
    /\ th' = [th EXCEPT ![c] = 0]
    /\ top' = [top EXCEPT ![c] = "-"]
    /\ terr' = [terr EXCEPT ![c] = Nil]
    /\ tres' = [tres EXCEPT ![c] = None]
    /\ UNCHANGED <<nextSvc, handleVars, svcErr, ghostVars,
                   ctxVars, auxVars,
                   callVars, finishVars, simpleVars, otherVars>>

\* ---- specification ----

Launch == \E s \in Svcs : RunCtxFail(s) \/ RunSpawn(s)

Lifecycle(s) ==
    \/ InitializeCall(s)
    \/ \E r \in {Nil, EInit} : InitializeReturn(s, r)
    \/ RunCall(s)
    \/ \E r \in {Nil, ERun} : RunReturn(s, r)
    \/ ShutdownStep(s)
    \/ SetStoppedError(s)
    \/ SetStoppedClose(s)
    \/ EgReturn(s)

HandleCall(t) ==
    \/ OnceDoFirst(t)
    \/ OnceDoSkip(t)
    \/ \E r \in {Nil, ESd} : ShutdownFuncReturn(t, r)
    \/ WaitReceive(t)
    \/ WaitReturn(t)

External(c) ==
    \/ \E h \in Svcs : CallWait(c, h)
    \/ \E h \in Svcs : CallShutdown(c, h)
    \/ CallerDone(c)

Next ==
    \/ Launch
    \/ CancelBase
    \/ \E s \in Svcs : Lifecycle(s)
    \/ \E t \in Threads : HandleCall(t)
    \/ \E c \in Callers : External(c)

Spec == Init /\ [][Next]_vars

\* RunParallelAndWait / RunGroupAndWait: the only calls on the handles are the
\* Wait calls of the collecting goroutines and the lifecycle goroutines' own
\* handle.Shutdown, so the once gate is never found already fired.
GroupHandleCall(t) ==
    \/ OnceDoFirst(t)
    \/ \E r \in {Nil, ESd} : ShutdownFuncReturn(t, r)
    \/ WaitReceive(t)
    \/ WaitReturn(t)

\* RunParallelAndWait / RunGroupAndWait: go func(h) { errs[i] = h.Wait() }
\* is started for handle i once runAll has returned; the value its Wait
\* returns stays in tres as errs[i]
Collect(i) == CallWait(WaiterOf(i), i)

\* RunParallelAndWait / RunGroupAndWait: wg.Wait() returns once every
\* collecting goroutine is done, and errs is returned; with no services nil
\* (the empty slice) is returned at once, with one service []error{r}
AndWaitReturn ==
    /\ andWaitRet = Pending
    /\ RunAllReturned
    /\ \A i \in 1..nSvcs : tpc[WaiterOf(i)] = "ret"
    /\ andWaitRet' = [i \in 1..nSvcs |-> errs[i]]
    /\ UNCHANGED <<nextSvc, handleVars, svcErr, threadVars, ghostVars, ctxVars,
                   auxVars, callVars, errs, exitCode, simpleVars, otherVars>>

\* the builtin max
max(a, b) == IF a > b THEN a ELSE b

\* fail.ExitCode(err): the exit code the error carries, 0 for no error; the
\* errors of this model carry a code each by their primary cause
ExitCode(e) ==
    CASE e[1] = "nil" -> 0
      [] e[1] = "ECtx" -> 1
      [] e[1] = "EInit" -> 2
      [] e[1] = "ERun" -> 3
      [] OTHER -> 4

\* RunParallelAndExit / RunGroupAndExit: for _, err := range errs
\* { exitCode = max(exitCode, fail.ExitCode(err)) }, from index i on
RECURSIVE ExitCodeLoop(_, _, _)
ExitCodeLoop(es, i, code) ==
    IF i > Len(es)
    THEN code
    ELSE ExitCodeLoop(es, i + 1, max(code, ExitCode(es[i])))

\* RunParallelAndExit / RunGroupAndExit: exitCode := 0, then the loop
ParallelExitCode(es) == ExitCodeLoop(es, 1, 0)

\* RunAndExit: fail.ExitCode(err) for an error, 0 otherwise
RunAndExitCode(e) == IF e # Nil THEN ExitCode(e) ELSE 0

\* Run...AndExit: os.Exit with the code computed from what Run...AndWait
\* returned; a single service may have been run by RunAndExit as well.
\* The process ends, and with it every goroutine still running.
OsExit ==
    /\ andWaitRet # Pending
    /\ exitCode = NotExited
    /\ \E code \in {ParallelExitCode(andWaitRet)}
                    \cup (IF nSvcs = 1 THEN {RunAndExitCode(andWaitRet[1])} ELSE {}) :
           exitCode' = code
    /\ tpc' = [t \in Threads |-> IF tpc[t] = "egret" THEN "killed" ELSE tpc[t]]
    /\ UNCHANGED <<nextSvc, handleVars, svcErr, th, top, terr, tres, ghostVars,
                   ctxVars, auxVars, callVars, errs, andWaitRet, simpleVars, otherVars>>

Finish == AndWaitReturn \/ OsExit

GroupNext ==
    \/ Launch
    \/ CancelBase
    \/ \E s \in Svcs : Lifecycle(s)
    \/ \E t \in Threads : GroupHandleCall(t)
    \/ \E i \in Svcs : Collect(i)
    \/ Finish

GroupSpec == GroupInit /\ [][GroupNext]_vars

\* The Go scheduler runs every runnable goroutine: the launch loop, each
\* lifecycle goroutine and each call in progress keep taking steps, and every
\* invoked callback returns.  Whether an external caller starts a call is
\* left open.
FairSpec ==
    /\ Spec
    /\ WF_vars(Launch)
    /\ \A s \in Svcs : WF_vars(Lifecycle(s))
    /\ \A t \in Threads : WF_vars(HandleCall(t))

FairGroupSpec ==
    /\ GroupSpec
    /\ WF_vars(Launch)
    /\ \A s \in Svcs : WF_vars(Lifecycle(s))
    /\ \A t \in Threads : WF_vars(GroupHandleCall(t))

\* Run...AndExit: in addition the calling goroutine keeps running: it starts
\* the collecting goroutines, returns from wg.Wait() and calls os.Exit.
FairExitSpec ==
    /\ FairGroupSpec
    /\ \A i \in Svcs : WF_vars(Collect(i))
    /\ WF_vars(Finish)

\* Only the goroutine that called runAll is assumed to keep running: nothing
\* is assumed about the lifecycle goroutines, so a callback may never return.
LaunchFairSpec ==
    /\ GroupSpec
    /\ WF_vars(Launch)

\* ---- unnamed/part_004: simpleService ----

\* variant: Swap reports the old value but stores nothing
SwapNoStore(v, new) == <<v, v>>

\* variant: Swap stores the new value but reports the flag as unset
SwapForgetful(v, new) == <<FALSE, new>>

\* atomic.Bool.Swap(new): <<the value returned (the old one), the value stored>>
Swap(v, new) == <<v, new>>

\* Run: if s.started.Swap(true) { return ErrServiceAlreadyRunning }
SimpleRunSwap(r) ==
    /\ rpc[r] = "idle"
    /\ started' = Swap(started, TRUE)[2]
    /\ IF Swap(started, TRUE)[1]
       THEN /\ rpc' = [rpc EXCEPT ![r] = "ret"]
            /\ rres' = [rres EXCEPT ![r] = ErrServiceAlreadyRunning]
       ELSE /\ rpc' = [rpc EXCEPT ![r] = "swapped"]
            /\ UNCHANGED rres
    /\ UNCHANGED <<engineVars, otherVars, stopped, shutdownRequested, simpleErr, fnCalls,
                   rran, fnRet>>

\* Run: if s.stopped.Load() { return ErrServiceAlreadyStopped }; the deferred
\* s.stopped.Store(true) is registered
SimpleRunCheckStopped(r) ==
    /\ rpc[r] = "swapped"
    /\ IF stopped
       THEN /\ rpc' = [rpc EXCEPT ![r] = "ret"]
            /\ rres' = [rres EXCEPT ![r] = ErrServiceAlreadyStopped]
       ELSE /\ rpc' = [rpc EXCEPT ![r] = "deferred"]
            /\ UNCHANGED rres
    /\ UNCHANGED <<engineVars, otherVars, started, stopped, shutdownRequested, simpleErr,
                   fnCalls, rran, fnRet>>

\* Run: if s.shutdownRequested.Load() { return nil } (the deferred store
\* runs); otherwise s.fn(ctx) is invoked
SimpleRunCheckShutdown(r) ==
    /\ rpc[r] = "deferred"
    /\ IF shutdownRequested
       THEN /\ stopped' = TRUE
            /\ rpc' = [rpc EXCEPT ![r] = "ret"]
            /\ rres' = [rres EXCEPT ![r] = Nil]
            /\ UNCHANGED <<fnCalls, rran>>
       ELSE /\ fnCalls' = fnCalls + 1
            /\ rran' = [rran EXCEPT ![r] = TRUE]
            /\ rpc' = [rpc EXCEPT ![r] = "fn"]
            /\ UNCHANGED <<stopped, rres>>
    /\ UNCHANGED <<engineVars, otherVars, started, shutdownRequested, simpleErr, fnRet>>

\* variant: Run reports a clean stop when a shutdown was requested meanwhile
RunReturnValueNilOnShutdown(e, requested) == IF requested THEN Nil ELSE e

\* Run: return err, the value fn returned, whether or not a shutdown was
\* requested while fn ran (the flag is not read again after fn)
RunReturnValue(e, requested) == e

\* Run: fn returns e; a non-nil e is stored in s.err; the deferred store
\* runs; Run returns e
SimpleFnReturn(r, e) ==
    /\ rpc[r] = "fn"
    /\ fnRet' = e
    /\ simpleErr' = IF e # Nil THEN e ELSE simpleErr
    /\ stopped' = TRUE
    /\ rpc' = [rpc EXCEPT ![r] = "ret"]
    /\ rres' = [rres EXCEPT ![r] = RunReturnValue(e, shutdownRequested)]
    /\ UNCHANGED <<engineVars, otherVars, started, shutdownRequested, fnCalls, rran>>

\* the goroutine is done with the value Run returned and may call Run again
SimpleRunAgain(r) ==
    /\ rpc[r] = "ret"
    /\ rpc' = [rpc EXCEPT ![r] = "idle"]
    /\ rran' = [rran EXCEPT ![r] = FALSE]
    /\ rres' = [rres EXCEPT ![r] = None]
    /\ UNCHANGED <<engineVars, otherVars, started, stopped, shutdownRequested, simpleErr,
                   fnCalls, fnRet>>

\* Shutdown: s.shutdownRequested.Store(true); return nil
SimpleShutdown ==
    /\ shutdownRequested' = TRUE
    /\ UNCHANGED <<engineVars, otherVars, started, stopped, simpleErr, fnCalls,
                   rpc, rran, rres, fnRet>>

\* variant: the started flag is tested before the stopped flag
HealthStatusStartedFirst ==
    IF started
    THEN "HealthStatusHealthy"
    ELSE IF stopped
         THEN (IF simpleErr # Nil THEN "HealthStatusError" ELSE "HealthStatusShutdown")
         ELSE "HealthStatusUnknown"

\* Health().Status: Error or Shutdown once stopped (by s.err), otherwise
\* Healthy once started, otherwise Unknown
HealthStatus ==
    IF stopped
    THEN (IF simpleErr # Nil THEN "HealthStatusError" ELSE "HealthStatusShutdown")
    ELSE IF started THEN "HealthStatusHealthy" ELSE "HealthStatusUnknown"

SimpleRun(r) ==
    \/ SimpleRunSwap(r)
    \/ SimpleRunCheckStopped(r)
    \/ SimpleRunCheckShutdown(r)
    \/ \E e \in {Nil, EFn} : SimpleFnReturn(r, e)
    \/ SimpleRunAgain(r)

SimpleNext ==
    \/ \E r \in Runners : SimpleRun(r)
    \/ SimpleShutdown

SimpleSpec == SimpleInit /\ [][SimpleNext]_vars

\* ---- DefaultRunner (unnamed/part_001) ----

\* what a caller that recovers the panic of r.run / r.Wait observes
Panicked == <<"panic", "not implemented">>

\* variant: Stop flips the flag
StoppingSwapToggle(v) == <<v, ~v>>

\* Stop: r.stopping.Swap(true)
StoppingSwap(v) == Swap(v, TRUE)

\* DefaultRunner.Run(svc): builds the handle, registers it and the service
\* under the fresh handle.id, then calls r.run, which panics; the caller
\* recovers the panic (one that does not ends the process and makes no
\* further call)
RunnerRun(c, id) ==
    /\ ~crashed
    /\ cpc[c] = "idle"
    /\ id \notin serviceHandles
    /\ services' = services \cup {id}
    /\ serviceHandles' = serviceHandles \cup {id}
    /\ cop' = [cop EXCEPT ![c] = "Run"]
    /\ cpc' = [cpc EXCEPT ![c] = "ret"]
    /\ cres' = [cres EXCEPT ![c] = Panicked]
    /\ UNCHANGED <<engineVars, simpleVars, configVars, envNameVars, stopping, cid, cdepth, crashed,
                   stopNils>>

\* DefaultRunner.Shutdown(ctx, h): return r.shutdownAndRemove(ctx, h.Id())
RunnerShutdown(c, id) ==
    /\ ~crashed
    /\ cpc[c] = "idle"
    /\ cpc' = [cpc EXCEPT ![c] = "shutdownAndRemove"]
    /\ cop' = [cop EXCEPT ![c] = "Shutdown"]
    /\ cid' = [cid EXCEPT ![c] = id]
    /\ cdepth' = [cdepth EXCEPT ![c] = 1]
    /\ UNCHANGED <<engineVars, simpleVars, configVars, envNameVars, services, serviceHandles, stopping,
                   cres, crashed, stopNils>>

\* shutdownAndRemove(ctx, id): looks the handle up under the read lock; for
\* a nil handle it returns nil, and every shutdownAndRemove frame below it
\* on the stack then deletes the id from both maps and returns that nil;
\* for a handle it calls r.Shutdown(ctx, handle), which is
\* shutdownAndRemove(ctx, handle.Id()) one frame deeper, until the stack is
\* exhausted and the runtime ends the process
ShutdownAndRemove(c) ==
    /\ ~crashed
    /\ cpc[c] = "shutdownAndRemove"
    /\ IF cid[c] \notin serviceHandles
       THEN /\ serviceHandles' = IF cdepth[c] > 1
                                 THEN serviceHandles \ {cid[c]}
                                 ELSE serviceHandles
            /\ services' = IF cdepth[c] > 1
                           THEN services \ {cid[c]}
                           ELSE services
            /\ cpc' = [cpc EXCEPT ![c] = "ret"]
            /\ cres' = [cres EXCEPT ![c] = Nil]
            /\ cdepth' = [cdepth EXCEPT ![c] = 0]
            /\ UNCHANGED crashed
       ELSE IF cdepth[c] < MaxStack
            THEN /\ cdepth' = [cdepth EXCEPT ![c] = cdepth[c] + 1]
                 /\ UNCHANGED <<services, serviceHandles, cpc, cres, crashed>>
            ELSE /\ crashed' = TRUE
                 /\ UNCHANGED <<services, serviceHandles, cpc, cres, cdepth>>
    /\ UNCHANGED <<engineVars, simpleVars, configVars, envNameVars, stopping, cop, cid, stopNils>>

\* DefaultRunner.Stop(ctx): ErrServiceAlreadyStopped if the swap found the
\* flag set, nil otherwise
RunnerStop(c) ==
    /\ ~crashed
    /\ cpc[c] = "idle"
    /\ stopping' = StoppingSwap(stopping)[2]
    /\ cop' = [cop EXCEPT ![c] = "Stop"]
    /\ cpc' = [cpc EXCEPT ![c] = "ret"]
    /\ cres' = [cres EXCEPT ![c] = IF StoppingSwap(stopping)[1]
                                   THEN ErrServiceAlreadyStopped
                                   ELSE Nil]
    /\ stopNils' = IF StoppingSwap(stopping)[1] THEN stopNils ELSE stopNils + 1
    /\ UNCHANGED <<engineVars, simpleVars, configVars, envNameVars, services, serviceHandles, cid,
                   cdepth, crashed>>

\* the caller goes on to its next call
RunnerCallerNext(c) ==
    /\ ~crashed
    /\ cpc[c] = "ret"
    /\ cpc' = [cpc EXCEPT ![c] = "idle"]
    /\ cres' = [cres EXCEPT ![c] = None]
    /\ UNCHANGED <<engineVars, simpleVars, configVars, envNameVars, services, serviceHandles, stopping,
                   cop, cid, cdepth, crashed, stopNils>>

RunnerCall(c) ==
    \/ \E id \in RIds : RunnerRun(c, id)
    \/ \E id \in RIds : RunnerShutdown(c, id)
    \/ ShutdownAndRemove(c)
    \/ RunnerStop(c)
    \/ RunnerCallerNext(c)

RunnerNext == \E c \in RCallers : RunnerCall(c)

\* one DefaultRunner from NewRunner, called by NumRCallers goroutines
RunnerInit ==
    /\ InitHandles
    /\ InitSimple
    /\ InitOther
    /\ nSvcs = 0
    /\ ~grouped

RunnerSpec == RunnerInit /\ [][RunnerNext]_vars

\* a goroutine inside shutdownAndRemove keeps running
FairRunnerSpec ==
    RunnerSpec /\ \A c \in RCallers : WF_vars(ShutdownAndRemove(c))

\* ---- readConfig (config.go) ----

\* the contents a config file can have: for each field whether it sets it
FileContents == [readable : {TRUE}, sets : [Keys -> BOOLEAN]] \cup {Unreadable}

RECURSIVE SeqsUpTo(_, _)
\* the sequences over S of length at most n
SeqsUpTo(S, n) ==
    IF n = 0
    THEN {<<>>}
    ELSE SeqsUpTo(S, n - 1)
             \cup {Append(q, x) : q \in {p \in SeqsUpTo(S, n - 1) : Len(p) = n - 1},
                                  x \in S}

\* the calls of readConfig considered: the options, what each listed file
\* holds and which fields the environment has a variable for
ConfigInputs ==
    [Files : SeqsUpTo(FileContents, MaxFiles),
     FilesPriority : Priorities,
     FilesRequired : BOOLEAN,
     EnvVars : BOOLEAN,
     EnvVarsPriority : Priorities,
     Env : [Keys -> BOOLEAN]]

\* readFileConfig(path, opts) on the i-th listed file: the fields the file
\* sets hold the file's value (its position in the list), the others zero
readFileConfig(i) ==
    [nil |-> FALSE, v |-> [k \in Keys |-> IF cfgIn.Files[i].sets[k] THEN i ELSE Zero]]

\* readEnvConfig(opts): return nil, nil
readEnvConfig == NilCfg

\* mergo.Merge(&res, cfg, mergo.WithOverride) for a non-nil cfg: the
\* non-zero fields of cfg replace those of res
MergoMerge(dst, src) ==
    [k \in Keys |-> IF src.v[k] # Zero THEN src.v[k] ELSE dst[k]]

\* mergo.Merge(&res, cfg, mergo.WithOverride) for a nil cfg: the library is
\* not part of the sources, so each thing it may do: leave res alone,
\* return an error, panic
NilMergeOutcomes == {"skip", "error", "panic"}

\* readConfig, lines 133-139: envCfg stays nil unless EnvVars, and then it
\* is what readEnvConfig returned; readEnvConfig returns no error
ReadEnv ==
    /\ cfgPc = "start"
    /\ envCfg' = IF cfgIn.EnvVars THEN readEnvConfig ELSE NilCfg
    /\ cfgPc' = "files"
    /\ cfgI' = 1
    /\ UNCHANGED <<engineVars, simpleVars, runnerVars, envNameVars, cfgIn,
                   fileCfgs, allCfgs, res, cfgRet>>

\* readConfig, lines 141-155, one iteration: an unreadable file ends the
\* call with an error if FilesRequired and is passed over otherwise
ReadFile ==
    /\ cfgPc = "files"
    /\ cfgI <= Len(cfgIn.Files)
    /\ IF ~cfgIn.Files[cfgI].readable
       THEN IF cfgIn.FilesRequired
            THEN /\ cfgRet' = <<"error", "failed to read config file", cfgI>>
                 /\ cfgPc' = "ret"
                 /\ UNCHANGED <<fileCfgs, cfgI>>
            ELSE /\ cfgI' = cfgI + 1
                 /\ UNCHANGED <<fileCfgs, cfgPc, cfgRet>>
       ELSE /\ fileCfgs' = Append(fileCfgs, readFileConfig(cfgI))
            /\ cfgI' = cfgI + 1
            /\ UNCHANGED <<cfgPc, cfgRet>>
    /\ UNCHANGED <<engineVars, simpleVars, runnerVars, envNameVars, cfgIn,
                   envCfg, allCfgs, res>>

\* readConfig, lines 157-162: allCfgs
AllCfgs(files, env, filesPriority, envVarsPriority) ==
    IF envVarsPriority < filesPriority
    THEN files \o <<env>>
    ELSE <<env>> \o files

\* readConfig, lines 157-164: the files loop is over; allCfgs is arranged
\* and res is the zero T
Arrange ==
    /\ cfgPc = "files"
    /\ cfgI > Len(cfgIn.Files)
    /\ allCfgs' = AllCfgs(fileCfgs, envCfg, cfgIn.FilesPriority,
                          cfgIn.EnvVarsPriority)
    /\ res' = [k \in Keys |-> Zero]
    /\ cfgPc' = "merge"
    /\ cfgI' = 1
    /\ UNCHANGED <<engineVars, simpleVars, runnerVars, envNameVars, cfgIn,
                   envCfg, fileCfgs, cfgRet>>

\* readConfig, lines 165-169, one iteration
MergeNext(outcome) ==
    /\ cfgPc = "merge"
    /\ cfgI <= Len(allCfgs)
    /\ IF allCfgs[cfgI].nil
       THEN IF outcome = "skip"
            THEN /\ cfgI' = cfgI + 1
                 /\ UNCHANGED <<res, cfgPc, cfgRet>>
            ELSE /\ cfgRet' = IF outcome = "error"
                              THEN <<"error", "failed to merge config", cfgI>>
                              ELSE <<"panic", "mergo.Merge", cfgI>>
                 /\ cfgPc' = "ret"
                 /\ UNCHANGED <<res, cfgI>>
       ELSE /\ res' = MergoMerge(res, allCfgs[cfgI])
            /\ cfgI' = cfgI + 1
            /\ UNCHANGED <<cfgPc, cfgRet>>
    /\ UNCHANGED <<engineVars, simpleVars, runnerVars, envNameVars, cfgIn,
                   envCfg, fileCfgs, allCfgs>>

\* readConfig, line 171: return &res, nil
ReturnRes ==
    /\ cfgPc = "merge"
    /\ cfgI > Len(allCfgs)
    /\ cfgRet' = <<"ok", res>>
    /\ cfgPc' = "ret"
    /\ UNCHANGED <<engineVars, simpleVars, runnerVars, envNameVars, cfgIn,
                   envCfg, fileCfgs, cfgI, allCfgs, res>>

ConfigNext ==
    \/ ReadEnv
    \/ ReadFile
    \/ Arrange
    \/ \E outcome \in NilMergeOutcomes : MergeNext(outcome)
    \/ ReturnRes

\* one call readConfig(opts) for each of the inputs
ConfigInit ==
    /\ InitHandles
    /\ InitSimple
    /\ InitRunner
    /\ InitEnvName
    /\ nSvcs = 0
    /\ ~grouped
    /\ cfgIn \in ConfigInputs
    /\ cfgPc = "start"
    /\ envCfg = NilCfg
    /\ fileCfgs = <<>>
    /\ cfgI = 0
    /\ allCfgs = <<>>
    /\ res = [k \in Keys |-> Zero]
    /\ cfgRet = None

ConfigSpec == ConfigInit /\ [][ConfigNext]_vars

\* ---- EnvName (env.go) ----

LowerLetters == <<"a", "b", "c", "d", "e", "f", "g", "h", "i", "j", "k", "l", "m", "n", "o", "p", "q", "r", "s", "t", "u", "v", "w", "x", "y", "z">>
UpperLetters == <<"A", "B", "C", "D", "E", "F", "G", "H", "I", "J", "K", "L", "M", "N", "O", "P", "Q", "R", "S", "T", "U", "V", "W", "X", "Y", "Z">>
Digits == <<"0", "1", "2", "3", "4", "5", "6", "7", "8", "9">>

\* c is one of the elements of the sequence q
InSeq(c, q) == \E i \in 1..Len(q) : q[i] = c

\* strings.ToUpper on one ASCII character
ToUpperChar(c) ==
    IF InSeq(c, LowerLetters)
    THEN UpperLetters[CHOOSE i \in 1..Len(LowerLetters) : LowerLetters[i] = c]
    ELSE c

\* strings.ToUpper
ToUpper(str) == [i \in 1..Len(str) |-> ToUpperChar(str[i])]

\* regexp [^A-Z0-9_] replaced by "_"
ReplaceInvalid(str) ==
    [i \in 1..Len(str) |->
        IF InSeq(str[i], UpperLetters) \/ InSeq(str[i], Digits) \/ str[i] = "_"
        THEN str[i]
        ELSE "_"]

RECURSIVE CollapseUnderscores(_)
\* regexp _+ replaced by "_"
CollapseUnderscores(str) ==
    IF Len(str) < 2
    THEN str
    ELSE IF str[1] = "_" /\ str[2] = "_"
         THEN CollapseUnderscores(Tail(str))
         ELSE <<str[1]>> \o CollapseUnderscores(Tail(str))

RECURSIVE TrimLeft(_, _)
TrimLeft(str, c) ==
    IF str # <<>> /\ str[1] = c THEN TrimLeft(Tail(str), c) ELSE str

RECURSIVE TrimRight(_, _)
TrimRight(str, c) ==
    IF str # <<>> /\ str[Len(str)] = c
    THEN TrimRight(SubSeq(str, 1, Len(str) - 1), c)
    ELSE str

\* strings.Trim(name, "_")
Trim(str, c) == TrimRight(TrimLeft(str, c), c)

\* NormalizeEnvName(name)
NormalizeEnvName(name) ==
    IF name = <<>>
    THEN name
    ELSE LET t == Trim(CollapseUnderscores(ReplaceInvalid(ToUpper(name))), "_")
         IN IF Len(t) > 0 /\ InSeq(t[1], Digits) THEN <<"_">> \o t ELSE t

\* strings.HasSuffix(prefix, "_")
HasSuffixUnderscore(prefix) == prefix # <<>> /\ prefix[Len(prefix)] = "_"

\* EnvName, lines 78-84: the prefix that is put before the name
EffectivePrefix(prefix) ==
    IF prefix = <<>>
    THEN <<"S", "E", "R", "V", "I", "C", "E", "_">>
    ELSE IF ~HasSuffixUnderscore(prefix) THEN prefix \o <<"_">> ELSE prefix

\* EnvName(prefix, name)
EnvName(prefix, name) == NormalizeEnvName(EffectivePrefix(prefix) \o name)

\* the characters the generated prefixes and names are made of: a lower and
\* an upper case letter, a digit, the underscore and a character outside
\* [A-Za-z0-9_]
EnvChars == {"a", "B", "0", "_", "-"}

\* the documented calls of EnvName
DocumentedCalls ==
    {<<<<"M", "Y", "A", "P", "P">>, <<"L", "O", "G", "_", "L", "E", "V", "E", "L">>>>,
     <<<<>>, <<"C", "O", "N", "F", "I", "G", "_", "P", "A", "T", "H">>>>,
     <<<<"M", "Y", "A", "P", "P", "_">>, <<"0", "c", "o", "n", "f", "i", "g", "-", "d", "t", "e", "s", "t">>>>,
     <<<<"0", "A", "P", "P">>, <<"c", "o", "n", "f", "i", "g">>>>}

\* the calls of EnvName considered
EnvNameInputs ==
    DocumentedCalls \cup (SeqsUpTo(EnvChars, MaxLen) \X SeqsUpTo(EnvChars, MaxLen))

\* a call EnvName(envPrefix, envName) returns
EnvNameCall ==
    /\ envOut = None
    /\ envOut' = EnvName(envPrefix, envName)
    /\ UNCHANGED <<engineVars, simpleVars, runnerVars, configVars, envPrefix,
                   envName>>

EnvNameNext == EnvNameCall

\* one call EnvName(prefix, name) for each of the inputs
EnvNameInit ==
    /\ InitHandles
    /\ InitSimple
    /\ InitRunner
    /\ InitConfig
    /\ nSvcs = 0
    /\ ~grouped
    /\ \E in \in EnvNameInputs : envPrefix = in[1] /\ envName = in[2]
    /\ envOut = None

EnvNameSpec == EnvNameInit /\ [][EnvNameNext]_vars

\* ---- properties ----

IsError(e) == e # None /\ e # Nil

\* thread t has passed the once gate of a Handle.Shutdown call on handle h
PastGate(t, h) ==
    /\ top[t] = "Shutdown"
    /\ th[t] = h
    /\ tpc[t] \in {"wait", "wait2", "ret"}

\* C1: every launched run eventually closes its handle's exit signal (hence
\* every Wait and Shutdown caller eventually returns), given that every
\* invoked callback returns and the lifecycle goroutine keeps being scheduled.
C1_ExitEventuallyCloses ==
    \A s \in Svcs :
        (hkind[s] # "none")
            ~> (exitClosed[s] \/ (tpc[s] = "run" /\ runBlocks[s] /\ ~ctxDone[s]))

\* C2: a service whose Initialize, Run and Shutdown all returned nil ends
\* with the exit signal closed, Wait's result nil and the phase Finished.
C2_CleanRunFinishes ==
    \A s \in Svcs :
        (initRet[s] = Nil /\ runRet[s] = Nil /\ sdRet[s] = Nil)
            ~> (/\ exitClosed[s]
                /\ phase[s] = PhaseFinished
                /\ WithAssociated(err[s], shutdownErr[s]) = Nil)

\* C3: the service's Shutdown callback is invoked at most once per handle,
\* over every interleaving of external Shutdown callers and the lifecycle
\* goroutine's own shutdown step.
C3_AtMostOnceShutdown ==
    \A s \in Svcs : sdCalls[s] <= 1

\* C3 witness: the lifecycle goroutine and an external caller have both gone
\* through the once gate of the same handle.
C3_Witness ==
    \E s \in Svcs : \E c \in Callers :
        /\ PastGate(s, s)
        /\ PastGate(c, s)
        /\ sdCalls[s] = 1

\* C4 as stated: once any Shutdown call on a handle has passed the gate the
\* callback has been invoked exactly once, and all Shutdown calls on the
\* handle return the same value.
C4_ExactlyOnceAnyHandle ==
    \A s \in Svcs :
        /\ (\E t \in Threads : PastGate(t, s)) => sdCalls[s] = 1
        /\ Cardinality(sdResults[s]) <= 1

\* C4 amended: on a handle whose execution context was built, once any
\* Shutdown call has passed the gate the callback has been invoked exactly
\* once; on a handle synthesized for a context-construction failure it is
\* never invoked; in both cases all Shutdown calls on one handle return the
\* identical combined result, the one Wait computes from the final state.
C4_ExactlyOnceLiveHandle ==
    \A s \in Svcs :
        /\ (hkind[s] = "live" /\ \E t \in Threads : PastGate(t, s))
               => sdCalls[s] = 1
        /\ hkind[s] = "error" => sdCalls[s] = 0
        /\ Cardinality(sdResults[s]) <= 1
        /\ \A c \in Callers :
               (tpc[c] = "ret" /\ PastGate(c, s))
                   => /\ sdResults[s] = {tres[c]}
                      /\ tres[c] = WithAssociated(err[s], shutdownErr[s])

\* C4 witness: two external Shutdown calls on one live handle were in flight
\* together and both returned, the callback having failed.
C4_Witness ==
    \E s \in Svcs : \E c1, c2 \in Callers :
        /\ c1 # c2
        /\ hkind[s] = "live"
        /\ tpc[c1] = "ret" /\ PastGate(c1, s)
        /\ tpc[c2] = "ret" /\ PastGate(c2, s)
        /\ sdRet[s] = ESd
        /\ sdCalls[s] = 1

\* C5: no Wait or Shutdown call gets past the exit channel, let alone
\* returns, before the exit signal is closed.
C5_NoReturnBeforeExit ==
    /\ \A t \in Threads :
           (th[t] \in Svcs /\ tpc[t] \in {"wait2", "ret"}) => exitClosed[th[t]]
    /\ \A s \in Svcs :
           (waitResults[s] \cup sdResults[s]) # {} => exitClosed[s]

\* C5 witness: a Wait call and a Shutdown call have both returned.
C5_Witness ==
    \E s \in Svcs : \E c1, c2 \in Callers :
        /\ tpc[c1] = "ret" /\ top[c1] = "Wait" /\ th[c1] = s
        /\ tpc[c2] = "ret" /\ top[c2] = "Shutdown" /\ th[c2] = s

\* C6: all Wait calls on one handle return the same combined result.
C6_WaitStable ==
    \A s \in Svcs : Cardinality(waitResults[s]) <= 1

\* C7: when Initialize returned an error E, Run is never invoked, and once
\* the exit signal is closed Error() is E and every Wait result has E as
\* its primary error.
C7_InitErrorIsPrimary ==
    \A s \in Svcs :
        IsError(initRet[s]) =>
            /\ runCalls[s] = 0
            /\ runRet[s] = None
            /\ exitClosed[s] => err[s] = initRet[s]
            /\ \A r \in waitResults[s] : r[1] = initRet[s][1]
            /\ \A c \in Callers :
                   (tpc[c] = "ret" /\ th[c] = s) => tres[c][1] = initRet[s][1]

\* C7 witness: Initialize failed, the exit signal is closed and a Wait call
\* has returned.
C7_Witness ==
    \E s \in Svcs :
        /\ initRet[s] = EInit
        /\ exitClosed[s]
        /\ waitResults[s] # {}

\* C8: when Initialize returned an error, the phase observed once the exit
\* signal is closed is Failed.
C8_InitErrorEndsFailed ==
    \A s \in Svcs :
        (IsError(initRet[s]) /\ exitClosed[s]) => phase[s] = PhaseFailed

\* C9: for every run that entered its lifecycle, the Shutdown callback has
\* been invoked exactly once by the time the exit signal closes.
C9_ShutdownUnconditional ==
    \A s \in Svcs :
        (hkind[s] = "live" /\ exitClosed[s]) => sdCalls[s] = 1

\* C10: whenever the exit signal is closed the phase is terminal: Failed if
\* the run error or the shutdown error is non-nil, Finished otherwise.
C10_ExitImpliesTerminalPhase ==
    \A s \in Svcs :
        exitClosed[s] =>
            phase[s] = IF err[s] # Nil \/ shutdownErr[s] # Nil
                       THEN PhaseFailed
                       ELSE PhaseFinished

\* C11: a handle's phase never decreases along Waiting < Initializing <
\* Running < ShuttingDown < {Finished | Failed}, and a phase of Finished or
\* Failed never changes again (so never Finished at one time and Failed at
\* another).
C11_PhaseMonotone ==
    [][\A s \in Svcs :
          /\ phase'[s] >= phase[s]
          /\ phase[s] \in {PhaseFinished, PhaseFailed} => phase'[s] = phase[s]]_vars

\* C11 witness: a handle has gone through every transition the run makes,
\* up to ShuttingDown with the shutdown callback returned.
C11_Witness ==
    \E s \in Svcs :
        /\ phase[s] = PhaseShuttingDown
        /\ initRet[s] = Nil /\ runRet[s] = Nil /\ sdRet[s] # None

\* C12: close(h.exitSig) is executed at most once per handle, for handles
\* driven by a lifecycle goroutine and for error handles alike.
C12_ExitClosedAtMostOnce ==
    \A s \in Svcs :
        /\ closes[s] <= 1
        /\ exitClosed[s] <=> closes[s] = 1

\* C12 witness: a lifecycle goroutine has closed its exit signal and ended,
\* and calls on the handle have returned since.
C12_Witness ==
    \E s \in Svcs :
        /\ hkind[s] = "live"
        /\ tpc[s] = "done"
        /\ closes[s] = 1
        /\ waitResults[s] # {}

\* service a's Initialize or Run returned an error
Failed(a) == IsError(initRet[a]) \/ IsError(runRet[a])

\* the error a's Initialize or Run returned
FailureOf(a) == IF IsError(initRet[a]) THEN initRet[a] ELSE runRet[a]

\* C13: in a grouped run, once one service has got through Initialize, Run
\* and Shutdown with nil results (its lifecycle ends with a nil error), the
\* execution contexts of all the other services become cancelled.
C13_GroupCancelOnCleanExit ==
    \A a \in Svcs :
        (grouped /\ initRet[a] = Nil /\ runRet[a] = Nil /\ sdRet[a] = Nil)
            ~> (\A b \in Svcs \ {a} :
                    /\ hkind[b] # "none"
                    /\ hkind[b] = "live" => ctxDone[b])

C15_ParallelNeverCancels ==
    ~grouped => \A s \in Svcs : ctxDone[s] => baseDone

\* C15 witness: in a parallel run one service has failed and its goroutine
\* ended while a sibling's Run is still executing under a live context.
C15_Witness ==
    \E a, b \in Svcs :
        /\ a # b
        /\ ~grouped
        /\ svcErr[a] # Nil /\ tpc[a] = "done"
        /\ tpc[b] = "run" /\ ~ctxDone[b]

\* C16: under both policies, once the base context is cancelled the
\* execution context of every launched service is cancelled.
C16_BaseCancelReachesAll ==
    baseDone => \A s \in Svcs : hkind[s] = "live" => ctxDone[s]

\* C16 witness: the base context was cancelled while every service of the
\* run was executing Run.
C16_Witness ==
    /\ baseDone
    /\ \A s \in Svcs : tpc[s] = "run" /\ ctxDone[s]

\* C17: an error handle is terminated from the start (exit signal closed,
\* Error() the construction error, once gate fired so that Wait and Shutdown
\* do not block and return that error) and the service's Initialize, Run and
\* Shutdown are never invoked, also not by Handle.Shutdown calls.
C17_ErrorHandleTerminated ==
    \A s \in Svcs :
        hkind[s] = "error" =>
            /\ exitClosed[s]
            /\ err[s] = ECtx
            /\ once[s] = "done"
            /\ tpc[s] = "unborn"
            /\ initCalls[s] = 0 /\ runCalls[s] = 0 /\ sdCalls[s] = 0
            /\ (waitResults[s] \cup sdResults[s]) \subseteq {ECtx}

\* C17 witness: Wait and Shutdown have both returned on an error handle.
C17_Witness ==
    \E s \in Svcs :
        /\ hkind[s] = "error"
        /\ waitResults[s] = {ECtx}
        /\ sdResults[s] = {ECtx}

\* C18: when Run returned an error E, Error() is E whenever the exit signal
\* is closed, and every Wait / Shutdown result has E as primary error, a
\* shutdown error appearing only as the associated error.
C18_RunErrorPrimary ==
    \A s \in Svcs :
        IsError(runRet[s]) =>
            /\ exitClosed[s] => err[s] = runRet[s]
            /\ \A r \in waitResults[s] \cup sdResults[s] :
                   /\ r[1] = runRet[s][1]
                   /\ r[2] \in {"nil", shutdownErr[s][1]}

\* C18 witness: Run failed, the shutdown callback failed too, and a Wait
\* returned the run error with the shutdown error attached.
C18_Witness ==
    \E s \in Svcs :
        /\ runRet[s] = ERun
        /\ sdRet[s] = ESd
        /\ <<"ERun", "ESd">> \in waitResults[s]

\* C19: a service whose Initialize and Run returned nil and whose Shutdown
\* returned the error T ends with the exit signal closed, the phase Failed
\* (after ShuttingDown), the run error nil and T recorded as the shutdown
\* result only.
C19_ShutdownErrorEndToEnd ==
    \A s \in Svcs :
        (initRet[s] = Nil /\ runRet[s] = Nil /\ sdRet[s] = ESd)
            ~> (/\ exitClosed[s]
                /\ phase[s] = PhaseFailed
                /\ err[s] = Nil
                /\ shutdownErr[s] = ESd)

\* C20: no shutdown callback error is recorded on a handle whose exit signal
\* is already closed.
C20_ShutdownErrBeforeExit ==
    [][\A s \in Svcs : exitClosed[s] => shutdownErr'[s] = shutdownErr[s]]_vars

\* C21: launching does not block on callbacks: whatever the callbacks of the
\* services launched so far are doing, the next service can be launched, and
\* the launch call returns with all handles even when no lifecycle goroutine
\* ever gets to run and no callback ever returns; only the launching
\* goroutine is assumed to run.
C21_LaunchReturns ==
    /\ [](\A s \in Svcs : (nextSvc = s /\ s <= nSvcs) => ENABLED RunSpawn(s))
    /\ <>RunAllReturned

\* C21 witness: the launch has returned while one service has not started
\* (phase Waiting) and another is still executing Initialize.
C21_Witness ==
    /\ RunAllReturned
    /\ \E a, b \in Svcs :
           /\ tpc[a] = "spawned" /\ phase[a] = PhaseWaiting
           /\ tpc[b] = "init" /\ initRet[b] = None

\* C22: a handle is created in phase Waiting with no callback invoked yet
\* and stays there until its lifecycle goroutine starts; afterwards its phase
\* and run error change only in steps of that lifecycle goroutine; a step of
\* a Wait call changes no handle field; a step of a Shutdown call changes
\* at most the shutdown result, which is written at most once and only by
\* the caller that is inside the once gate.
C22_HandleFrame ==
    /\ [](\A s \in Svcs :
              (hkind[s] = "live" /\ initCalls[s] = 0) => phase[s] = PhaseWaiting)
    /\ [][/\ \A s \in Svcs :
                 /\ (hkind[s] = "none" /\ hkind'[s] # "none")
                        => /\ phase'[s] = PhaseWaiting
                           /\ initCalls[s] = 0 /\ runCalls[s] = 0 /\ sdCalls[s] = 0
                 /\ (hkind[s] # "none" /\ (phase'[s] # phase[s] \/ err'[s] # err[s]))
                        => (tpc'[s] # tpc[s] /\ top[s] = "-")
                 /\ shutdownErr'[s] # shutdownErr[s]
                        => /\ shutdownErr[s] = Nil
                           /\ once[s] = "busy"
                           /\ \E t \in Threads :
                                  /\ tpc[t] = "sd_cb" /\ th[t] = s
                                  /\ tpc'[t] # tpc[t]
          /\ \A t \in Threads \ Svcs :
                 tpc'[t] # tpc[t] =>
                     /\ UNCHANGED <<hkind, phase, err, exitClosed>>
                     /\ top'[t] = "Wait" => UNCHANGED <<shutdownErr, once>>]_vars

\* C22 witness: on a handle whose Initialize failed, an external Shutdown
\* call recorded a shutdown error and returned, and a Wait call returned.
C22_Witness ==
    \E s \in Svcs :
        /\ initRet[s] = EInit
        /\ err[s] = EInit
        /\ shutdownErr[s] = ESd
        /\ sdResults[s] # {}
        /\ waitResults[s] # {}

\* C23: the process exits with the maximum exit code over the Wait results
\* of all handles (0 if there are none), and a run in which every service's
\* Initialize, Run and Shutdown returned nil ends in exit code 0.
C23_ExitCodeIsMax ==
    /\ [](exitCode # NotExited =>
              /\ \A i \in 1..nSvcs : ExitCode(tres[WaiterOf(i)]) <= exitCode
              /\ \/ exitCode = 0
                 \/ \E i \in 1..nSvcs : ExitCode(tres[WaiterOf(i)]) = exitCode)
    /\ (/\ RunAllReturned
        /\ \A s \in 1..nSvcs :
               initRet[s] = Nil /\ runRet[s] = Nil /\ sdRet[s] = Nil)
           ~> (exitCode = 0)

\* C24: the engine's own steps of one run are ordered: Initialize is invoked
\* once, with the phase Initializing; Run at most once, only after Initialize
\* returned nil, with the phase Running; the engine's shutdown step runs only
\* after Run returned, with the phase ShuttingDown; and once the exit signal
\* is closed the phase is not written again.
C24_EngineStepsOrdered ==
    /\ [](\A s \in Svcs :
              /\ initCalls[s] <= 1 /\ runCalls[s] <= 1
              /\ tpc[s] \notin {"unborn", "spawned"} => initCalls[s] = 1
              /\ tpc[s] = "init" => phase[s] = PhaseInitializing
              /\ runCalls[s] = 1 => (initCalls[s] = 1 /\ initRet[s] = Nil)
              /\ tpc[s] = "run" => phase[s] = PhaseRunning
              /\ tpc[s] \in {"sd_once", "sd_cb", "wait", "wait2"}
                     => /\ runCalls[s] = 1 /\ runRet[s] = Nil
                        /\ phase[s] = PhaseShuttingDown
              /\ exitClosed[s] => tpc[s] \in {"unborn", "egret", "done", "killed"})
    /\ [][\A s \in Svcs : exitClosed'[s] => phase'[s] = phase[s]]_vars

\* C24 witness: the engine's own shutdown step has invoked the Shutdown
\* callback, after Initialize and Run were invoked once each.
C24_Witness ==
    \E s \in Svcs :
        /\ tpc[s] = "sd_cb"
        /\ initCalls[s] = 1 /\ runCalls[s] = 1 /\ sdCalls[s] = 1
        /\ phase[s] = PhaseShuttingDown

\* C25: the Shutdown callback is not invoked before Initialize has been
\* invoked, and not while Initialize is executing.
C25_NoShutdownBeforeInitialize ==
    \A s \in Svcs :
        /\ sdCalls[s] > 0 => initCalls[s] > 0
        /\ ~(/\ tpc[s] = "init"
             /\ \E t \in Threads : tpc[t] = "sd_cb" /\ th[t] = s)

\* C26: the context the Shutdown callback is invoked with is the one
\* supplied to the Handle.Shutdown call that invokes it (so calls that differ
\* in the supplied context hand the callback different contexts).
C26_SuppliedContextThreaded ==
    [][\A t \in Threads :
          (tpc[t] = "sd_once" /\ tpc'[t] = "sd_cb") => sdCtx'[th[t]] = sdArg[t]]_vars

C28_FrozenAfterExit ==
    [][\A s \in Svcs :
          exitClosed[s] => (phase'[s] = phase[s] /\ err'[s] = err[s])]_vars

\* C28 witness: after the exit signal closed on a run error, a Shutdown call
\* ran the callback, which failed, and Wait and Shutdown calls returned.
C28_Witness ==
    \E s \in Svcs :
        /\ exitClosed[s] /\ tpc[s] = "done"
        /\ runRet[s] = ERun
        /\ sdRet[s] = ESd
        /\ sdResults[s] # {}
        /\ waitResults[s] # {}

\* C29: in a grouped run an execution context is cancelled only if the base
\* context is cancelled or the lifecycle goroutine of some launched service
\* has returned an error; a service whose context could not be built neither
\* cancels anything nor stops the launch loop.
C29_CtxErrorDoesNotCancel ==
    /\ \A b \in Svcs :
           (grouped /\ (ctxDone[b] \/ groupDone))
               => \/ baseDone
                  \/ \E a \in Svcs :
                         /\ hkind[a] = "live"
                         /\ tpc[a] = "done"
                         /\ svcErr[a] # Nil
    /\ \A a \in Svcs : hkind[a] = "error" => nextSvc > a

\* C29 witness: in a grouped run a service launched after one whose context
\* could not be built is executing Run under an uncancelled context.
C29_Witness ==
    \E a, b \in Svcs :
        /\ a < b
        /\ grouped
        /\ hkind[a] = "error"
        /\ tpc[b] = "run"
        /\ ~ctxDone[b] /\ ~groupDone

\* some Run call is between the Swap and its return
SimpleRunInProgress == \E r \in Runners : rpc[r] \in {"swapped", "deferred", "fn"}

\* C30 as stated: fn is invoked at most once, every returned Run call either
\* invoked fn or returned ErrServiceAlreadyRunning, and once the service has
\* been started and no Run call is in progress fn has been invoked once.
C30_ExactlyOneRunExecutesFn ==
    /\ fnCalls <= 1
    /\ \A r \in Runners :
           rpc[r] = "ret" => (rran[r] \/ rres[r] = ErrServiceAlreadyRunning)
    /\ (started /\ ~SimpleRunInProgress) => fnCalls = 1

\* C30 amended: fn is invoked at most once and only one Run call at a time
\* is past the Swap; that call invokes fn unless Shutdown was called before it
\* read the shutdown flag, in which case it returns nil without invoking fn;
\* every other Run call returns ErrServiceAlreadyRunning without invoking fn.
C30_AtMostOneRunExecutesFn ==
    /\ fnCalls <= 1
    /\ Cardinality({r \in Runners : rpc[r] \in {"swapped", "deferred", "fn"}}) <= 1
    /\ \A r \in Runners :
           rpc[r] = "ret" =>
               \/ rran[r]
               \/ rres[r] = ErrServiceAlreadyRunning
               \/ (rres[r] = Nil /\ shutdownRequested /\ fnCalls = 0 /\ stopped)
    /\ (started /\ ~SimpleRunInProgress) =>
           (fnCalls = 1 \/ (fnCalls = 0 /\ shutdownRequested /\ stopped))
    /\ \A r \in Runners : rran[r] => fnCalls = 1

\* C30 witness: of two Run calls in flight together one invoked fn and the
\* other returned ErrServiceAlreadyRunning.
C30_Witness ==
    \E r1, r2 \in Runners :
        /\ r1 # r2
        /\ rpc[r1] = "ret" /\ rran[r1]
        /\ rpc[r2] = "ret" /\ rres[r2] = ErrServiceAlreadyRunning
        /\ fnCalls = 1

\* C31: Shutdown only raises the flag, which is never lowered; a Run call
\* that finds the flag raised when it checks it (so the first Run after a
\* Shutdown) returns nil, does not invoke fn and marks the service stopped;
\* a Shutdown while fn executes leaves fn executing, and the Run call that
\* invoked fn returns what fn returned.
C31_ShutdownOnlyRaisesFlag ==
    /\ [](\A r \in Runners :
              /\ (rpc[r] = "ret" /\ rran[r]) => (fnRet # None /\ rres[r] = fnRet)
              /\ rpc[r] = "fn" => (rran[r] /\ fnRet = None))
    /\ [][/\ shutdownRequested => shutdownRequested'
          /\ shutdownRequested' # shutdownRequested
                 => UNCHANGED <<started, stopped, simpleErr, fnCalls, rpc, rran,
                                rres, fnRet>>
          /\ \A r \in Runners :
                 (rpc[r] = "deferred" /\ shutdownRequested /\ rpc'[r] # rpc[r])
                     => /\ rpc'[r] = "ret"
                        /\ rres'[r] = Nil
                        /\ stopped'
                        /\ fnCalls' = fnCalls /\ ~rran'[r]]_vars

\* C31 witness: Shutdown was called while fn was executing and the Run call
\* has returned the error fn returned.
C31_Witness ==
    \E r \in Runners :
        /\ shutdownRequested
        /\ rpc[r] = "ret" /\ rran[r]
        /\ fnRet = EFn /\ rres[r] = EFn

\* C32: Health().Status is Unknown as long as no Run call has been made,
\* Healthy while the first Run call is in progress, and once that call has
\* returned Error if fn returned an error and Shutdown otherwise; once it is
\* Error or Shutdown it does not change again.
C32_HealthFollowsRunState ==
    /\ [](/\ ~started => HealthStatus = "HealthStatusUnknown"
          /\ SimpleRunInProgress => HealthStatus = "HealthStatusHealthy"
          /\ (started /\ ~SimpleRunInProgress) =>
                 HealthStatus = IF IsError(fnRet)
                                THEN "HealthStatusError"
                                ELSE "HealthStatusShutdown")
    /\ [][(HealthStatus \in {"HealthStatusError", "HealthStatusShutdown"})
              => (HealthStatus' = HealthStatus)]_vars

\* C32 witness: fn failed, the service is stopped with status Error, and a
\* later Run call has been turned away.
C32_Witness ==
    /\ HealthStatus = "HealthStatusError"
    /\ fnRet = EFn
    /\ \E r \in Runners : rpc[r] = "ret" /\ rres[r] = ErrServiceAlreadyRunning

C34_ShutdownTerminatesAndRemoves ==
    /\ \A c \in RCallers :
           [](cpc[c] = "shutdownAndRemove"
                 => <>(/\ cpc[c] = "ret"
                       /\ cid[c] \notin serviceHandles
                       /\ cid[c] \notin services))
    /\ [][\A c \in RCallers :
              (cpc[c] = "shutdownAndRemove" /\ cid[c] \notin serviceHandles
                  /\ cpc'[c] # cpc[c])
                  => (cres'[c] = Nil
                      /\ UNCHANGED <<services, serviceHandles>>)]_vars

\* C35: the stopping flag is never lowered; at most one Stop call returns
\* nil, one has done so as soon as the flag is raised, and a Stop call made
\* with the flag raised returns ErrServiceAlreadyStopped.
C35_StopFirstCallerWins ==
    /\ [](/\ stopNils = (IF stopping THEN 1 ELSE 0)
          /\ \A c \in RCallers :
                 (cpc[c] = "ret" /\ cop[c] = "Stop")
                     => cres[c] \in {Nil, ErrServiceAlreadyStopped})
    /\ [][/\ stopping => stopping'
          /\ \A c \in RCallers :
                 (cpc[c] = "idle" /\ cpc'[c] = "ret" /\ cop'[c] = "Stop")
                     => cres'[c] = (IF stopping
                                   THEN ErrServiceAlreadyStopped
                                   ELSE Nil)]_vars

\* C35 witness: two Stop calls have returned, one nil and the other
\* ErrServiceAlreadyStopped.
C35_Witness ==
    \E c1, c2 \in RCallers :
        /\ cpc[c1] = "ret" /\ cop[c1] = "Stop" /\ cres[c1] = Nil
        /\ cpc[c2] = "ret" /\ cop[c2] = "Stop"
        /\ cres[c2] = ErrServiceAlreadyStopped

\* C36: a readConfig call that has returned failed on the first unreadable
\* file if FilesRequired and there is one; otherwise it returned a value in
\* which every field has the environment's value if the environment sets
\* it and EnvVarsPriority < FilesPriority, else the value of the last
\* readable file setting it if there is one, else the environment's value.
C36_MergeByPriority ==
    cfgPc = "ret" =>
        IF cfgIn.FilesRequired
              /\ \E i \in 1..Len(cfgIn.Files) : ~cfgIn.Files[i].readable
        THEN /\ cfgRet[1] = "error"
             /\ cfgRet[2] = "failed to read config file"
             /\ ~cfgIn.Files[cfgRet[3]].readable
             /\ \A j \in 1..(cfgRet[3] - 1) : cfgIn.Files[j].readable
        ELSE /\ cfgRet[1] = "ok"
             /\ \A k \in Keys :
                    LET setting == {i \in 1..Len(cfgIn.Files) :
                                       /\ cfgIn.Files[i].readable
                                       /\ cfgIn.Files[i].sets[k]}
                        f == IF setting = {}
                             THEN Zero
                             ELSE CHOOSE i \in setting : \A j \in setting : j <= i
                        e == IF cfgIn.EnvVars /\ cfgIn.Env[k] THEN EnvVal ELSE Zero
                    IN cfgRet[2][k] =
                          IF cfgIn.EnvVarsPriority < cfgIn.FilesPriority
                          THEN (IF e # Zero THEN e ELSE f)
                          ELSE (IF f # Zero THEN f ELSE e)

\* C37: EnvName returns the four documented results, and for every call the
\* normal form of the effective prefix followed by the name.
C37_DocumentedResults ==
    envOut # None =>
        /\ envOut = NormalizeEnvName(EffectivePrefix(envPrefix) \o envName)
        /\ (envPrefix = <<"M", "Y", "A", "P", "P">> /\ envName = <<"L", "O", "G", "_", "L", "E", "V", "E", "L">>) => envOut = <<"M", "Y", "A", "P", "P", "_", "L", "O", "G", "_", "L", "E", "V", "E", "L">>
        /\ (envPrefix = <<>> /\ envName = <<"C", "O", "N", "F", "I", "G", "_", "P", "A", "T", "H">>) => envOut = <<"S", "E", "R", "V", "I", "C", "E", "_", "C", "O", "N", "F", "I", "G", "_", "P", "A", "T", "H">>
        /\ (envPrefix = <<"M", "Y", "A", "P", "P", "_">> /\ envName = <<"0", "c", "o", "n", "f", "i", "g", "-", "d", "t", "e", "s", "t">>) => envOut = <<"M", "Y", "A", "P", "P", "_", "C", "O", "N", "F", "I", "G", "_", "T", "E", "S", "T">>
        /\ (envPrefix = <<"0", "A", "P", "P">> /\ envName = <<"c", "o", "n", "f", "i", "g">>) => envOut = <<"_", "0", "A", "P", "P", "_", "C", "O", "N", "F", "I", "G">>

====
